---------------------------- MODULE Spec2Model ----------------------------
(***************************************************************************)
(* Model of the markdown ingestion script (src/ingest_markdown.py).        *)
(*                                                                         *)
(* Strings are sequences of one-character strings, so that the regular     *)
(* expressions, str.strip, slicing and string formatting of the script are *)
(* computed character by character.  Positions are 1-based: the Python     *)
(* offset k is the position k+1, and the slice text[a:b] is                *)
(* SubSeq(text, a+1, b).                                                   *)
(*                                                                         *)
(* Three specifications share the module:                                  *)
(*   SpecSanitize  sanitize_collection_name applied to one input name      *)
(*   SpecChunk     chunk_markdown applied to one input document            *)
(*   Spec          main(): consecutive runs of the command against the     *)
(*                 file system and the document store                      *)
(***************************************************************************)
EXTENDS Integers, Sequences, FiniteSets, TLC

VARIABLES
    \* sanitize_collection_name, one call
    name_in, name_out, name_done,
    \* chunk_markdown, one call
    doc_text, doc_matches, doc_chunks, doc_done,
    \* main(): locals of the current run
    pc, argv, filepath, isfile, text, chunks, basename, collection_name,
    documents, metadatas, ids, out, exit_code,
    \* the document store (chroma_data)
    collections, records,
    \* history: events of the current run, runs started, every id ever
    \* submitted, the last run whose upsert returned
    log, runs, submitted, prev

sanVars == <<name_in, name_out, name_done>>
docVars == <<doc_text, doc_matches, doc_chunks, doc_done>>
runVars == <<pc, argv, filepath, isfile, text, chunks, basename, collection_name,
             documents, metadatas, ids, out, exit_code>>
storeVars == <<collections, records>>
histVars == <<log, runs, submitted, prev>>
mainVars == <<runVars, storeVars, histVars>>
vars == <<sanVars, docVars, mainVars>>

-----------------------------------------------------------------------------
(* Bounds of the model *)

\* longest run of the filler letter in an input name
MaxFill == 64
\* longest prefix put before the filler
MaxHead == 1
\* longest suffix put after the filler
MaxTail == 2
\* most lines of an input document
MaxLines == 3
\* most runs of the command in one behaviour
MaxRuns == 3

(* Program constants *)

\* a heading has 1 to 6 '#' characters
MaxLevel == 6
\* shortest valid collection name
MinNameLen == 3
\* longest valid collection name
MaxNameLen == 63
\* characters of a chunk shown in the summary
PreviewLen == 80

-----------------------------------------------------------------------------
(* Characters and strings *)

Min(a, b) == IF a < b THEN a ELSE b

Lower == {"a","b","c","d","e","f","g","h","i","j","k","l","m",
          "n","o","p","q","r","s","t","u","v","w","x","y","z"}
Upper == {"A","B","C","D","E","F","G","H","I","J","K","L","M",
          "N","O","P","Q","R","S","T","U","V","W","X","Y","Z"}
Digit == {"0","1","2","3","4","5","6","7","8","9"}

\* the character class [a-zA-Z0-9_-]
NameChars == Lower \cup Upper \cup Digit \cup {"_", "-"}

\* characters removed by str.strip() and matched by \s
IsSpace(c) == c \in {" ", "\t", "\n", "\r", "\f"}

\* s.strip(chars): drop the leading and trailing characters that are in chars
StripChars(s, chars) ==
    LET keep == {k \in 1..Len(s) : s[k] \notin chars}
    IN  IF keep = {} THEN <<>>
        ELSE LET lo == CHOOSE k \in keep : \A j \in keep : k <= j
                 hi == CHOOSE k \in keep : \A j \in keep : k >= j
             IN  SubSeq(s, lo, hi)

\* s.strip()
strip(s) == StripChars(s, {" ", "\t", "\n", "\r", "\f"})

\* all strings over alphabet of length at most n
StringsUpTo(alphabet, n) == UNION {[1..k -> alphabet] : k \in 0..n}

-----------------------------------------------------------------------------
(* sanitize_collection_name *)

FALLBACK_NAME == <<"d","o","c","u","m","e","n","t","s">>
NAME_SUFFIX == <<"_","c","o","l","l","e","c","t","i","o","n">>

\* re.sub(r"[^a-zA-Z0-9_-]", "_", name)
ReplaceInvalid(name) ==
    [k \in 1..Len(name) |-> IF name[k] \in NameChars THEN name[k] ELSE "_"]

\* name.strip("_-")
StripEdges(name) == StripChars(name, {"_", "-"})

\* if not name: name = "documents"
OrFallback(name) == IF name = <<>> THEN FALLBACK_NAME ELSE name

\* if len(name) < 3: name = name + "_collection"
PadShort(name) == IF Len(name) < MinNameLen THEN name \o NAME_SUFFIX ELSE name

\* variant of the last step that returns the padded name uncut
TruncateOff(name) == name

\* name[:63]
Truncate(name) == SubSeq(name, 1, Min(MaxNameLen, Len(name)))

sanitize_collection_name(name) ==
    Truncate(PadShort(OrFallback(StripEdges(ReplaceInvalid(name)))))

\* input names: head, then a run of the letter a, then tail
NameAlphabet == {"a", "_", "-", "!"}
Fill(k) == [i \in 1..k |-> "a"]
NameInput(h, k, t) == h \o Fill(k) \o t

-----------------------------------------------------------------------------
(* Heading scanner: re.compile(r"^(#{1,6})\s+(.+)$", re.MULTILINE)          *)

\* ^ under re.MULTILINE: the start of the text, or just after a newline
AtLineStart(s, p) == p = 1 \/ s[p - 1] = "\n"

\* $ under re.MULTILINE: the end of the text, or just before a newline
AtLineEnd(s, p) == p = Len(s) + 1 \/ s[p] = "\n"

\* number of consecutive '#' characters from position p
HashRun(s, p) ==
    LET stop == CHOOSE q \in p..(Len(s) + 1) :
                    /\ q = Len(s) + 1 \/ s[q] # "#"
                    /\ \A k \in p..(q - 1) : s[k] = "#"
    IN  stop - p

\* number of consecutive \s characters from position p (newlines included)
SpaceRun(s, p) ==
    LET stop == CHOOSE q \in p..(Len(s) + 1) :
                    /\ q = Len(s) + 1 \/ ~IsSpace(s[q])
                    /\ \A k \in p..(q - 1) : IsSpace(s[k])
    IN  stop - p

\* number of consecutive characters from position p that '.' matches
DotRun(s, p) ==
    LET stop == CHOOSE q \in p..(Len(s) + 1) :
                    /\ q = Len(s) + 1 \/ s[q] = "\n"
                    /\ \A k \in p..(q - 1) : s[k] # "\n"
    IN  stop - p

NoMatch == [start |-> 0, end |-> 0, level |-> 0, label |-> <<>>]

Max(S) == CHOOSE a \in S : \A b \in S : b <= a

\* (.+)$ from position p: the lengths e of group 2 that end at a line end
LabelLens(s, p) == {e \in 1..DotRun(s, p) : AtLineEnd(s, p + e)}

\* \s+(.+)$ from position p: the lengths m of the whitespace run after
\* which the rest of the pattern matches
SpaceLens(s, p) == {m \in 1..SpaceRun(s, p) : LabelLens(s, p + m) # {}}

\* (#{1,6})\s+(.+)$ from position p: the lengths n of group 1 after which
\* the rest of the pattern matches
HashLens(s, p) ==
    {n \in 1..Min(MaxLevel, HashRun(s, p)) : SpaceLens(s, p + n) # {}}

\* The match the backtracking engine reports at p: every quantifier is
\* greedy, so the longest '#' run that lets the rest match is taken, then
\* the longest whitespace run, then the longest group 2.
MatchAt(s, p) ==
    IF ~AtLineStart(s, p) \/ HashLens(s, p) = {} THEN NoMatch
    ELSE LET n == Max(HashLens(s, p))
             m == Max(SpaceLens(s, p + n))
             e == Max(LabelLens(s, p + n + m))
         IN  [start |-> p,
              end   |-> p + n + m + e,
              level |-> n,
              label |-> SubSeq(s, p + n + m, p + n + m + e - 1)]

\* heading_pattern.finditer(text) from position pos on: the leftmost match,
\* then the matches after its end
RECURSIVE FindFrom(_, _)
FindFrom(s, pos) ==
    LET hits == {p \in pos..Len(s) : MatchAt(s, p) # NoMatch}
    IN  IF hits = {} THEN <<>>
        ELSE LET p == CHOOSE q \in hits : \A r \in hits : q <= r
                 m == MatchAt(s, p)
             IN  <<m>> \o FindFrom(s, m.end)

\* list(heading_pattern.finditer(text))
finditer(s) == FindFrom(s, 1)

-----------------------------------------------------------------------------
(* chunk_markdown *)

DOCUMENT == <<"D","o","c","u","m","e","n","t">>
PREAMBLE == <<"P","r","e","a","m","b","l","e">>

Chunk(heading, level, content) ==
    [heading |-> heading, level |-> level, content |-> content]

\* variant without the "if stripped" test
NoHeadingChunksUnchecked(s) == <<Chunk(DOCUMENT, 0, strip(s))>>

\* if not matches: the whole text is one chunk, unless it is blank
NoHeadingChunks(s) ==
    LET stripped == strip(s)
    IN  IF stripped # <<>> THEN <<Chunk(DOCUMENT, 0, stripped)>> ELSE <<>>

\* variant without the "if preamble" test
PreambleChunksUnchecked(s, matches) ==
    <<Chunk(PREAMBLE, 0, strip(SubSeq(s, 1, matches[1].start - 1)))>>

\* the text before the first heading, unless it is blank
PreambleChunks(s, matches) ==
    LET preamble == strip(SubSeq(s, 1, matches[1].start - 1))
    IN  IF preamble # <<>> THEN <<Chunk(PREAMBLE, 0, preamble)>> ELSE <<>>

\* for i, match in enumerate(matches): the iterations from i on
RECURSIVE HeadingChunks(_, _, _)
HeadingChunks(s, matches, i) ==
    IF i > Len(matches) THEN <<>>
    ELSE LET match   == matches[i]
             level   == match.level
             heading == strip(match.label)
             start   == match.start
             end     == IF i + 1 <= Len(matches) THEN matches[i + 1].start
                        ELSE Len(s) + 1
             content == strip(SubSeq(s, start, end - 1))
         IN  (IF content # <<>> THEN <<Chunk(heading, level, content)>> ELSE <<>>)
             \o HeadingChunks(s, matches, i + 1)

chunk_markdown(s) ==
    LET matches == finditer(s)
    IN  IF matches = <<>> THEN NoHeadingChunks(s)
        ELSE PreambleChunks(s, matches) \o HeadingChunks(s, matches, 1)

\* input documents: at most MaxLines lines joined by newlines; a line is a
\* run of '#', then blanks, then a label
HashRuns == {0, 1, MaxLevel, MaxLevel + 1}
Hashes(k) == [i \in 1..k |-> "#"]
DocLines ==
    {Hashes(k) \o sep \o lab : k \in HashRuns,
                               sep \in {<<>>, <<" ">>},
                               lab \in {<<>>, <<"a">>, <<" ">>}}
\* "\n".join(lines)
RECURSIVE JoinLines(_)
JoinLines(lines) ==
    IF Len(lines) = 0 THEN <<>>
    ELSE IF Len(lines) = 1 THEN lines[1]
    ELSE JoinLines(SubSeq(lines, 1, Len(lines) - 1)) \o <<"\n">> \o lines[Len(lines)]

-----------------------------------------------------------------------------
(* The two function specifications *)

MainIdle ==
    /\ pc = "idle" /\ argv = <<>> /\ filepath = <<>> /\ isfile = "unknown"
    /\ text = <<>> /\ chunks = <<>> /\ basename = <<>> /\ collection_name = <<>>
    /\ documents = <<>> /\ metadatas = <<>> /\ ids = <<>> /\ out = <<>>
    /\ exit_code = -1
    /\ collections = {} /\ records = {}
    /\ log = <<>> /\ runs = 0 /\ submitted = {}
    /\ prev = [valid |-> FALSE, filepath |-> <<>>, text |-> <<>>,
               collection_name |-> <<>>, ids |-> <<>>, repeats |-> 0]

SanIdle == name_in = <<>> /\ name_out = <<>> /\ name_done = FALSE
DocIdle == doc_text = <<>> /\ doc_matches = <<>> /\ doc_chunks = <<>> /\ doc_done = FALSE

InitSanitize ==
    /\ \E h \in StringsUpTo(NameAlphabet, MaxHead) :
       \E k \in 0..MaxFill :
       \E t \in StringsUpTo(NameAlphabet, MaxTail) :
          name_in = NameInput(h, k, t)
    /\ name_out = <<>>
    /\ name_done = FALSE
    /\ DocIdle /\ MainIdle

Sanitize ==
    /\ ~name_done
    /\ name_out' = sanitize_collection_name(name_in)
    /\ name_done' = TRUE
    /\ UNCHANGED <<name_in, docVars, mainVars>>

NextSanitize == Sanitize
SpecSanitize == InitSanitize /\ [][NextSanitize]_vars

InitChunk ==
    /\ \E n \in 0..MaxLines :
       \E lines \in [1..n -> DocLines] :
          doc_text = JoinLines(lines)
    /\ doc_matches = <<>>
    /\ doc_chunks = <<>>
    /\ doc_done = FALSE
    /\ SanIdle /\ MainIdle

ChunkMarkdown ==
    /\ ~doc_done
    /\ doc_matches' = finditer(doc_text)
    /\ doc_chunks' = chunk_markdown(doc_text)
    /\ doc_done' = TRUE
    /\ UNCHANGED <<doc_text, sanVars, mainVars>>

NextChunk == ChunkMarkdown
SpecChunk == InitChunk /\ [][NextChunk]_vars

-----------------------------------------------------------------------------
(* main(): one run of the command after another *)

\* str(i) for i >= 0
DigitChar == <<"0","1","2","3","4","5","6","7","8","9">>
RECURSIVE Dec(_)
Dec(i) == IF i < 10 THEN <<DigitChar[i + 1]>>
          ELSE Dec(i \div 10) \o <<DigitChar[(i % 10) + 1]>>

\* os.path.basename(path): what follows the last '/'
PathBasename(path) ==
    LET seps == {k \in 1..Len(path) : path[k] = "/"}
    IN  IF seps = {} THEN path ELSE SubSeq(path, Max(seps) + 1, Len(path))

\* os.path.splitext(name)[0]: name up to its last '.', unless that dot is
\* one of the dots name begins with
SplitextRoot(name) ==
    LET dots == {k \in 1..Len(name) : name[k] = "."}
    IN  IF dots = {} THEN name
        ELSE IF \E k \in 1..(Max(dots) - 1) : name[k] # "."
             THEN SubSeq(name, 1, Max(dots) - 1)
             ELSE name

CHUNK_TAG == <<"_","c","h","u","n","k","_">>

\* variant that builds the id from the collection name
MakeIdFromCollection(base, i) == sanitize_collection_name(base) \o CHUNK_TAG \o Dec(i)

\* variant that numbers the chunks on from one run to the next
MakeIdPerRun(base, i) == base \o CHUNK_TAG \o Dec(i + runs - 1)

\* f"{basename}_chunk_{i}"
MakeId(base, i) == base \o CHUNK_TAG \o Dec(i)

\* the metadata of chunk i (0-based) of the file at path
MakeMetadata(path, chunk, i) ==
    [source        |-> PathBasename(path),
     heading       |-> chunk.heading,
     heading_level |-> chunk.level,
     chunk_index   |-> i]

\* chunk["content"][:80].replace("\n", " ")
Preview(content) ==
    [k \in 1..Min(PreviewLen, Len(content)) |->
        IF content[k] = "\n" THEN " " ELSE content[k]]

\* the lines printed after a successful upsert
SummaryLines(path, name, chs) ==
    <<[kind |-> "ingested", filepath |-> path, collection |-> name],
      [kind |-> "chunks", count |-> Len(chs)],
      [kind |-> "db_path"],
      [kind |-> "blank"]>>
    \o [k \in 1..Len(chs) |->
          [kind |-> "chunk", index |-> k - 1, heading |-> chs[k].heading,
           chars |-> Len(chs[k].content), preview |-> Preview(chs[k].content)]]

\* collection.upsert: the batch replaces the records of the collection that
\* share an id with it
UpsertInto(recs, name, docs, metas, idents) ==
    {r \in recs : ~(r.collection = name /\ \E k \in 1..Len(idents) : r.id = idents[k])}
    \cup {[collection |-> name, id |-> idents[k], document |-> docs[k],
           metadata |-> metas[k]] : k \in 1..Len(idents)}

\* command lines: the paths given as arguments
PATH_A == <<"a",".","m","d">>
PATH_DIR_A == <<"d",".","x","/","a",".","t","x","t">>
PATH_A_BANG == <<"a","!",".","m","d">>
Paths == {PATH_A, PATH_DIR_A, PATH_A_BANG}
ArgLists == {<<>>} \cup {<<path>> : path \in Paths} \cup {<<PATH_A, PATH_DIR_A>>}

\* file contents the environment may hold
FileTexts == {<<" ","\n">>,
              <<"a">>,
              <<"a","\n","#"," ","b">>,
              <<"#"," ","b","\n","#"," ","c","\n">>}

Init ==
    /\ MainIdle /\ SanIdle /\ DocIdle

\* print an error and sys.exit(1)
ExitWithError(line) ==
    /\ out' = out \o <<line>>
    /\ exit_code' = 1
    /\ pc' = "exit"

\* an exception nothing catches: traceback on stderr, exit status 1
Raise(exc) ==
    /\ out' = out \o <<[kind |-> "traceback", exc |-> exc]>>
    /\ exit_code' = 1
    /\ pc' = "exit"

\* the command is started with the arguments args
Start(args) ==
    /\ pc \in {"idle", "exit"}
    /\ runs < MaxRuns
    /\ runs' = runs + 1
    /\ argv' = args
    /\ pc' = "argc"
    /\ filepath' = <<>> /\ isfile' = "unknown" /\ text' = <<>> /\ chunks' = <<>>
    /\ basename' = <<>> /\ collection_name' = <<>>
    /\ documents' = <<>> /\ metadatas' = <<>> /\ ids' = <<>>
    /\ out' = <<>> /\ exit_code' = -1 /\ log' = <<>>
    /\ UNCHANGED <<storeVars, submitted, prev, sanVars, docVars>>

\* variant whose usage error ends with exit status 0
CheckArgsExitZero ==
    /\ pc = "argc"
    /\ IF Len(argv) + 1 # 2
       THEN /\ out' = out \o <<[kind |-> "usage"]>>
            /\ exit_code' = 0
            /\ pc' = "exit"
            /\ UNCHANGED filepath
       ELSE /\ filepath' = argv[1]
            /\ pc' = "isfile"
            /\ UNCHANGED <<out, exit_code>>
    /\ UNCHANGED <<argv, isfile, text, chunks, basename, collection_name,
                   documents, metadatas, ids, storeVars, histVars, sanVars, docVars>>

\* if len(sys.argv) != 2: usage, exit 1 (argv holds the arguments after
\* the program name)
CheckArgs ==
    /\ pc = "argc"
    /\ IF Len(argv) + 1 # 2
       THEN /\ ExitWithError([kind |-> "usage"])
            /\ UNCHANGED filepath
       ELSE /\ filepath' = argv[1]
            /\ pc' = "isfile"
            /\ UNCHANGED <<out, exit_code>>
    /\ UNCHANGED <<argv, isfile, text, chunks, basename, collection_name,
                   documents, metadatas, ids, storeVars, histVars, sanVars, docVars>>

\* if not os.path.isfile(filepath): error, exit 1
CheckIsFile ==
    /\ pc = "isfile"
    /\ \E present \in BOOLEAN :
          /\ isfile' = IF present THEN "yes" ELSE "no"
          /\ IF present
             THEN pc' = "open" /\ UNCHANGED <<out, exit_code>>
             ELSE ExitWithError([kind |-> "error", message |-> "File not found"])
    /\ UNCHANGED <<argv, filepath, text, chunks, basename, collection_name,
                   documents, metadatas, ids, storeVars, histVars, sanVars, docVars>>

\* with open(filepath, "r", encoding="utf-8") as f: open may raise OSError
OpenFile ==
    /\ pc = "open"
    /\ \E ok \in BOOLEAN :
          IF ok
          THEN /\ log' = log \o <<"open">>
               /\ pc' = "read"
               /\ UNCHANGED <<out, exit_code>>
          ELSE /\ log' = log \o <<"open failed">>
               /\ Raise("OSError")
    /\ UNCHANGED <<argv, filepath, isfile, text, chunks, basename, collection_name,
                   documents, metadatas, ids, storeVars, runs, submitted, prev,
                   sanVars, docVars>>

\* text = f.read(), then the with block releases the handle; read may raise
\* UnicodeDecodeError, and the with block releases the handle then too
ReadFile ==
    /\ pc = "read"
    /\ \/ \E content \in FileTexts :
            /\ text' = content
            /\ log' = log \o <<"read", "close">>
            /\ pc' = "empty"
            /\ UNCHANGED <<out, exit_code>>
       \/ /\ log' = log \o <<"read failed", "close">>
          /\ Raise("UnicodeDecodeError")
          /\ UNCHANGED text
    /\ UNCHANGED <<argv, filepath, isfile, chunks, basename, collection_name,
                   documents, metadatas, ids, storeVars, runs, submitted, prev,
                   sanVars, docVars>>

\* if not text.strip(): error, exit 1
CheckEmpty ==
    /\ pc = "empty"
    /\ IF strip(text) = <<>>
       THEN ExitWithError([kind |-> "error", message |-> "File is empty."])
       ELSE pc' = "chunk" /\ UNCHANGED <<out, exit_code>>
    /\ UNCHANGED <<argv, filepath, isfile, text, chunks, basename, collection_name,
                   documents, metadatas, ids, storeVars, histVars, sanVars, docVars>>

\* chunks = chunk_markdown(text); if not chunks: error, exit 1
BuildChunks ==
    /\ pc = "chunk"
    /\ chunks' = chunk_markdown(text)
    /\ log' = log \o <<"chunk">>
    /\ IF chunks' = <<>>
       THEN ExitWithError([kind |-> "error", message |-> "No content found to ingest."])
       ELSE pc' = "name" /\ UNCHANGED <<out, exit_code>>
    /\ UNCHANGED <<argv, filepath, isfile, text, basename, collection_name,
                   documents, metadatas, ids, storeVars, runs, submitted, prev,
                   sanVars, docVars>>

\* basename and collection_name
DeriveName ==
    /\ pc = "name"
    /\ basename' = SplitextRoot(PathBasename(filepath))
    /\ collection_name' = sanitize_collection_name(basename')
    /\ pc' = "collection"
    /\ UNCHANGED <<argv, filepath, isfile, text, chunks, documents, metadatas, ids,
                   out, exit_code, storeVars, histVars, sanVars, docVars>>

\* client = PersistentClient(...); client.get_or_create_collection(...):
\* either call may raise
OpenCollection ==
    /\ pc = "collection"
    /\ \E ok \in BOOLEAN :
          IF ok
          THEN /\ collections' = collections \cup {collection_name}
               /\ log' = log \o <<"get_or_create_collection">>
               /\ pc' = "records"
               /\ UNCHANGED <<out, exit_code>>
          ELSE /\ log' = log \o <<"get_or_create_collection failed">>
               /\ Raise("StoreError")
               /\ UNCHANGED collections
    /\ UNCHANGED <<argv, filepath, isfile, text, chunks, basename, collection_name,
                   documents, metadatas, ids, records, runs, submitted, prev,
                   sanVars, docVars>>

\* for i, chunk in enumerate(chunks): the three parallel lists
BuildRecords ==
    /\ pc = "records"
    /\ documents' = [k \in 1..Len(chunks) |-> chunks[k].content]
    /\ metadatas' = [k \in 1..Len(chunks) |-> MakeMetadata(filepath, chunks[k], k - 1)]
    /\ ids' = [k \in 1..Len(chunks) |-> MakeId(basename, k - 1)]
    /\ pc' = "upsert"
    /\ UNCHANGED <<argv, filepath, isfile, text, chunks, basename, collection_name,
                   out, exit_code, storeVars, histVars, sanVars, docVars>>

\* what the histories record when an upsert returns
NotePrev ==
    [valid |-> TRUE, filepath |-> filepath, text |-> text,
     collection_name |-> collection_name, ids |-> ids,
     repeats |-> IF prev.valid /\ prev.filepath = filepath /\ prev.text = text
                 THEN prev.repeats + 1 ELSE 0]
NoteSubmitted ==
    submitted \cup {[filepath |-> filepath, index |-> k - 1, id |-> ids[k]] :
                        k \in 1..Len(ids)}

\* variant that carries on to the summary when the upsert raises
UpsertSwallowed ==
    /\ pc = "upsert"
    /\ \E ok \in BOOLEAN :
          IF ok
          THEN /\ records' = UpsertInto(records, collection_name, documents, metadatas, ids)
               /\ log' = log \o <<"upsert">>
               /\ submitted' = NoteSubmitted
               /\ prev' = NotePrev
               /\ pc' = "print"
               /\ UNCHANGED <<out, exit_code>>
          ELSE /\ log' = log \o <<"upsert failed">>
               /\ pc' = "print"
               /\ UNCHANGED <<records, submitted, prev, out, exit_code>>
    /\ UNCHANGED <<argv, filepath, isfile, text, chunks, basename, collection_name,
                   documents, metadatas, ids, collections, runs, sanVars, docVars>>

\* collection.upsert(documents=..., metadatas=..., ids=...): may raise
Upsert ==
    /\ pc = "upsert"
    /\ \E ok \in BOOLEAN :
          IF ok
          THEN /\ records' = UpsertInto(records, collection_name, documents, metadatas, ids)
               /\ log' = log \o <<"upsert">>
               /\ submitted' = NoteSubmitted
               /\ prev' = NotePrev
               /\ pc' = "print"
               /\ UNCHANGED <<out, exit_code>>
          ELSE /\ log' = log \o <<"upsert failed">>
               /\ Raise("StoreError")
               /\ UNCHANGED <<records, submitted, prev>>
    /\ UNCHANGED <<argv, filepath, isfile, text, chunks, basename, collection_name,
                   documents, metadatas, ids, collections, runs, sanVars, docVars>>

\* the summary, then the normal end of the program: exit status 0
PrintSummary ==
    /\ pc = "print"
    /\ out' = out \o SummaryLines(filepath, collection_name, chunks)
    /\ log' = log \o <<"summary">>
    /\ exit_code' = 0
    /\ pc' = "exit"
    /\ UNCHANGED <<argv, filepath, isfile, text, chunks, basename, collection_name,
                   documents, metadatas, ids, storeVars, runs, submitted, prev,
                   sanVars, docVars>>

Next ==
    \/ \E args \in ArgLists : Start(args)
    \/ CheckArgs
    \/ CheckIsFile
    \/ OpenFile
    \/ ReadFile
    \/ CheckEmpty
    \/ BuildChunks
    \/ DeriveName
    \/ OpenCollection
    \/ BuildRecords
    \/ Upsert
    \/ PrintSummary

Spec == Init /\ [][Next]_vars

-----------------------------------------------------------------------------
(* Properties of sanitize_collection_name (SpecSanitize) *)

\* C1: for every input string, the result of sanitize_collection_name
\* neither begins nor ends with '_' or '-'.
C1_NoEdgeSeparator ==
    name_done =>
        /\ name_out # <<>>
        /\ name_out[1] \notin {"_", "-"}
        /\ name_out[Len(name_out)] \notin {"_", "-"}

\* C2: for every input string, the result of sanitize_collection_name has
\* between 3 and 63 characters, all of them letters, digits, '_' or '-'.
C2_LengthAndCharset ==
    name_done =>
        /\ Len(name_out) >= 3
        /\ Len(name_out) <= 63
        /\ \A k \in 1..Len(name_out) : name_out[k] \in NameChars

\* an input longer than 63 characters was cut to 63 after the padding step
C2_Witness ==
    /\ name_done
    /\ Len(name_in) > 63
    /\ Len(name_out) = 63

-----------------------------------------------------------------------------
(* Properties of chunk_markdown (SpecChunk) *)

NonBlank(s) == \E k \in 1..Len(s) : ~IsSpace(s[k])

\* c is s without its leading and trailing whitespace
IsTrimOf(c, s) ==
    IF ~NonBlank(s) THEN c = <<>>
    ELSE \E i, j \in 1..Len(s) :
            /\ i <= j
            /\ c = SubSeq(s, i, j)
            /\ ~IsSpace(s[i]) /\ ~IsSpace(s[j])
            /\ \A k \in 1..Len(s) : (k < i \/ k > j) => IsSpace(s[k])

\* the line of s that starts at position p, without its newline
LineAt(s, p) == SubSeq(s, p, p + DotRun(s, p) - 1)

\* a line made of 1 to 6 '#', then at least one whitespace character, then
\* at least one more character
IsHeadingLine(line) ==
    \E n \in 1..6 : \E m \in 1..Len(line) :
        /\ n + m < Len(line)
        /\ \A k \in 1..n : line[k] = "#"
        /\ \A k \in (n + 1)..(n + m) : IsSpace(line[k])

\* the text from heading i to the next heading, or to the end of the text
SpanOf(s, matches, i) ==
    SubSeq(s, matches[i].start,
           (IF i < Len(matches) THEN matches[i + 1].start ELSE Len(s) + 1) - 1)

\* C3: a heading is reported only at a line that itself begins with 1 to 6
\* '#', then whitespace, then text on that same line; no other line is
\* matched as a heading or starts a chunk of level >= 1.
C3_HeadingOnOneLine ==
    doc_done =>
        /\ \A i \in DOMAIN doc_matches :
              /\ AtLineStart(doc_text, doc_matches[i].start)
              /\ IsHeadingLine(LineAt(doc_text, doc_matches[i].start))
        /\ \A k \in DOMAIN doc_chunks :
              doc_chunks[k].level >= 1 =>
                  \E i \in DOMAIN doc_matches :
                      /\ IsHeadingLine(LineAt(doc_text, doc_matches[i].start))
                      /\ IsTrimOf(doc_chunks[k].content, SpanOf(doc_text, doc_matches, i))

\* the text before the first heading
BeforeFirst(s, matches) == SubSeq(s, 1, matches[1].start - 1)

\* C4: with N >= 1 headings found, chunk_markdown returns at most N+1
\* chunks: one per heading whose span is not blank, in heading order,
\* preceded by exactly one level-0 'Preamble' chunk if and only if the text
\* before the first heading is not blank.
C4_ChunksPerHeading ==
    (doc_done /\ Len(doc_matches) >= 1) =>
        LET N      == Len(doc_matches)
            kept   == {i \in 1..N : NonBlank(SpanOf(doc_text, doc_matches, i))}
            hasPre == NonBlank(BeforeFirst(doc_text, doc_matches))
            off    == IF hasPre THEN 1 ELSE 0
        IN  /\ Len(doc_chunks) <= N + 1
            /\ Len(doc_chunks) = off + Cardinality(kept)
            /\ {k \in DOMAIN doc_chunks : doc_chunks[k].level = 0}
                   = (IF hasPre THEN {1} ELSE {})
            /\ hasPre =>
                  /\ doc_chunks[1].heading = PREAMBLE
                  /\ IsTrimOf(doc_chunks[1].content, BeforeFirst(doc_text, doc_matches))
            /\ \A i \in kept :
                  LET k == off + Cardinality({j \in kept : j <= i})
                  IN  /\ k \in DOMAIN doc_chunks
                      /\ doc_chunks[k].level = doc_matches[i].level
                      /\ IsTrimOf(doc_chunks[k].heading, doc_matches[i].label)
                      /\ IsTrimOf(doc_chunks[k].content, SpanOf(doc_text, doc_matches, i))

\* a preamble and two headings gave three chunks
C4_Witness ==
    /\ doc_done
    /\ Len(doc_matches) = 2
    /\ Len(doc_chunks) = 3
    /\ doc_chunks[1].level = 0

\* C5: with no heading found, chunk_markdown returns exactly one chunk
\* {'Document', 0, trimmed text} when the text is not blank, and no chunk
\* when the text is empty or whitespace-only.
C5_NoHeadingDocument ==
    (doc_done /\ doc_matches = <<>>) =>
        IF NonBlank(doc_text)
        THEN /\ Len(doc_chunks) = 1
             /\ doc_chunks[1].heading = DOCUMENT
             /\ doc_chunks[1].level = 0
             /\ IsTrimOf(doc_chunks[1].content, doc_text)
        ELSE doc_chunks = <<>>

\* a headingless text with surrounding whitespace gave one trimmed chunk
C5_Witness ==
    /\ doc_done
    /\ doc_matches = <<>>
    /\ Len(doc_chunks) = 1
    /\ doc_chunks[1].heading = DOCUMENT
    /\ Len(doc_chunks[1].content) < Len(doc_text)

\* C9: every chunk has non-empty, trimmed content and a level in 0..6;
\* level 0 exactly for the synthetic 'Document' and 'Preamble' chunks; every
\* other chunk has the number of leading '#' of its heading line as level
\* and the trimmed, non-empty text of that heading line as label.
C9_ChunkShape ==
    doc_done =>
        LET synthetic == doc_matches = <<>>
                         \/ NonBlank(BeforeFirst(doc_text, doc_matches))
        IN  \A k \in DOMAIN doc_chunks :
              LET c    == doc_chunks[k]
                  line == LineAt(c.content, 1)
              IN  /\ c.content # <<>>
                  /\ ~IsSpace(c.content[1])
                  /\ ~IsSpace(c.content[Len(c.content)])
                  /\ c.level \in 0..6
                  /\ c.level = 0 <=> (k = 1 /\ synthetic)
                  /\ c.level = 0 => c.heading \in {DOCUMENT, PREAMBLE}
                  /\ c.level >= 1 =>
                        /\ HashRun(line, 1) = c.level
                        /\ c.heading # <<>>
                        /\ IsTrimOf(c.heading, SubSeq(line, c.level + 1, Len(line)))

-----------------------------------------------------------------------------
(* Properties of main() (Spec) *)

\* b is the file name of path without its directories and without its
\* extension (the part from the last dot on, leading dots not counting)
IsStemOf(b, path) ==
    \E i \in 0..Len(path) : \E j \in 1..(Len(path) + 1) :
        /\ i < j
        /\ b = SubSeq(path, i + 1, j - 1)
        /\ i = 0 \/ path[i] = "/"
        /\ \A k \in (i + 1)..Len(path) : path[k] # "/"
        /\ IF j <= Len(path)
           THEN /\ path[j] = "."
                /\ \A k \in (j + 1)..Len(path) : path[k] # "."
                /\ \E k \in (i + 1)..(j - 1) : path[k] # "."
           ELSE \A k \in (i + 1)..Len(path) :
                    path[k] = "." => \A h \in (i + 1)..k : path[h] = "."

\* C6: the submitted batch has one document, one metadata entry and one id
\* per chunk, in chunk order; record i holds chunk i's content, chunk_index
\* i and the id '{basename}_chunk_{i}'; two records of any runs share an id
\* only if they have the same basename and the same chunk index.
C6_BatchShape ==
    /\ pc = "print" =>
          LET n == Len(chunks)
          IN  /\ n >= 1
              /\ Len(documents) = n /\ Len(metadatas) = n /\ Len(ids) = n
              /\ \A k \in 1..n :
                    /\ documents[k] = chunks[k].content
                    /\ metadatas[k].chunk_index = k - 1
                    /\ \E b \in {SubSeq(filepath, i, j) : i, j \in 1..Len(filepath)} :
                          /\ IsStemOf(b, filepath)
                          /\ ids[k] = b \o <<"_","c","h","u","n","k","_">> \o Dec(k - 1)
                    /\ [collection |-> collection_name, id |-> ids[k],
                        document |-> documents[k], metadata |-> metadatas[k]] \in records
    /\ \A r1, r2 \in submitted :
          r1.id = r2.id =>
              /\ r1.index = r2.index
              /\ \E b \in {SubSeq(r1.filepath, i, j) : i, j \in 1..Len(r1.filepath)} :
                    IsStemOf(b, r1.filepath) /\ IsStemOf(b, r2.filepath)

\* a batch of two records was submitted after a file with another basename
\* had been ingested into the same collection
C6_Witness ==
    /\ pc = "print"
    /\ Len(ids) = 2
    /\ \E r \in records :
          /\ r.collection = collection_name
          /\ r.metadata.source # PathBasename(filepath)
          /\ \A k \in 1..Len(ids) : r.id # ids[k]

\* C7: a run that ingests the same unchanged file as the last successful
\* run computes the same collection name and the same ids, and its upsert
\* leaves the store exactly as it was.
C7_Idempotent ==
    [][(/\ pc = "upsert" /\ pc' = "print"
        /\ prev.valid /\ prev.filepath = filepath /\ prev.text = text)
       => (/\ collection_name = prev.collection_name
           /\ ids = prev.ids
           /\ records' = records
           /\ collections' = collections)]_vars

\* the same unchanged file has been ingested twice in a row
C7_Witness ==
    /\ pc = "print"
    /\ prev.valid
    /\ prev.repeats >= 1
    /\ Len(ids) >= 2
    /\ Cardinality(records) >= Len(ids)

InputErrorCase ==
    \/ Len(argv) # 1
    \/ isfile = "no"
    \/ \E k \in DOMAIN log : log[k] = "read" /\ ~NonBlank(text)
    \/ \E k \in DOMAIN log : log[k] = "chunk" /\ chunks = <<>>

UnreadableCase ==
    \E k \in DOMAIN log : log[k] \in {"open failed", "read failed"}

StoreCallFailed ==
    \E k \in DOMAIN log : log[k] \in {"get_or_create_collection failed", "upsert failed"}

EndsInError ==
    /\ exit_code = 1
    /\ out # <<>>
    /\ out[Len(out)].kind \in {"usage", "error", "traceback"}
    /\ \A k \in DOMAIN log :
          log[k] \notin {"get_or_create_collection", "get_or_create_collection failed",
                         "upsert", "upsert failed", "summary"}

EndsInSuccess ==
    /\ exit_code = 0
    /\ log # <<>>
    /\ log[Len(log)] = "summary"
    /\ \E k \in DOMAIN out : out[k].kind = "ingested"

\* C8 as stated: exit code 1 and an error message, with no collection
\* opened and no record upserted, when the argument count is not one, the
\* path is no file, the trimmed text is empty or no chunk results; in every
\* other case, the store calls succeeding, exit code 0 after the summary.
C8_ExitCodes ==
    pc = "exit" =>
        IF InputErrorCase THEN EndsInError
        ELSE (~StoreCallFailed => EndsInSuccess)

\* C8 amended: a file that exists but cannot be opened or decoded is a
\* further case that ends with exit code 1, an error message and no store
\* call.
C8_ExitCodesAmended ==
    pc = "exit" =>
        IF InputErrorCase \/ UnreadableCase THEN EndsInError
        ELSE (~StoreCallFailed => EndsInSuccess)

\* a run ended on a file that exists and could not be decoded
C8_Witness ==
    /\ pc = "exit"
    /\ Len(argv) = 1
    /\ isfile = "yes"
    /\ \E k \in DOMAIN log : log[k] = "read failed"
    /\ exit_code = 1

\* C10: a successful run reads and releases the file, builds the chunks,
\* opens or creates the collection, submits one batch upsert and prints the
\* summary, in this order and each once; no run issues more than one
\* upsert, and a failed upsert is followed by no summary.
C10_StepOrder ==
    /\ (pc = "exit" /\ exit_code = 0) =>
          log = <<"open", "read", "close", "chunk", "get_or_create_collection",
                  "upsert", "summary">>
    /\ Cardinality({k \in DOMAIN log : log[k] \in {"upsert", "upsert failed"}}) <= 1
    /\ (\E k \in DOMAIN out : out[k].kind \in {"ingested", "chunks", "db_path", "chunk"}) =>
          \E k \in DOMAIN log : log[k] = "upsert"
    /\ (\E k \in DOMAIN log : log[k] = "upsert failed") =>
          /\ \A k \in DOMAIN log : log[k] # "summary"
          /\ \A k \in DOMAIN out : out[k].kind = "traceback"
          /\ pc = "exit" /\ exit_code = 1

\* a run ended successfully, its summary printed
C10_Witness ==
    /\ pc = "exit"
    /\ exit_code = 0
    /\ Len(log) = 7
    /\ \E k \in DOMAIN out : out[k].kind = "chunk"

=============================================================================
